---- MODULE Spec2Model ----
(***************************************************************************)
(* Tool-invocation session protocol of the repository.                     *)
(*                                                                         *)
(*   SpecClient  : the streaming-HTTP client MCPSSEClient                  *)
(*                 (src/weather/test_weather_sse.py) against a server that *)
(*                 keeps to the protocol: it announces the endpoint once   *)
(*                 and answers only requests POSTed on the connection.     *)
(*   SpecClientAny : the same client against a server that may put any     *)
(*                 line on the event stream at any time.                   *)
(*   SpecWeather : the weather servers' tool handlers: call_tool and       *)
(*                 list_tools of src/weather/weather_mcp_server.py, the    *)
(*                 tools of src/weather/weather_mcp_sse_server.py.         *)
(*   SpecScripts : the client scripts that drive a library session,        *)
(*                 WeatherMCPClient.test_weather and run_all_tests         *)
(*                 (src/weather/test_weather_mcp_advanced.py,              *)
(*                 src/stock-utility/testStockUtilityMCP.py).              *)
(*   SpecLedger  : the tools of the stock server on its two CSV files      *)
(*                 (src/stock-utility/stockUtilityMCP.py), one server      *)
(*                 process, each tool call run to its end.                 *)
(*   SpecLedgerRace : two server processes on the same two files, each     *)
(*                 running one read-modify-write tool, read and write as   *)
(*                 separate steps.                                         *)
(***************************************************************************)
EXTENDS Integers, Sequences, FiniteSets, TLC

\* ------------------------------------------------------------------ bounds
\* send_request calls made on the one client object
MaxCalls == 2
\* stream lines the server delivers, over all connections
MaxLines == 7
\* tool calls dispatched by the weather server
MaxToolCalls == 2
\* runs of a client script
MaxRuns == 2
\* tool calls served by the stock server
MaxLedgerCalls == 3
\* times a ledger file is removed from /tmp behind the server's back
MaxRemovals == 1
\* chunks in the vector store
MaxChunks == 4
\* document_search calls served
MaxSearches == 2

VARIABLES
  \* MCPSSEClient fields
  message_id, session_url, initialized,
  \* the frame of the running send_request call
  pc, method, request_id, endpoint_url, event_type, ret,
  \* the connection and what went over it (observations, not program state)
  calls, conn, nread, line, phase, endpointPending, endpointData,
  endpointSets, endpointEvents, wire, allocated, failure, skipped, peer,
  answered,
  \* weather servers: the tool call being served and its effects, the lookups
  \* that raised so far, the last tools/list result
  toolCalls, lastCall, response, lookups, lookupFailures, listed, listings,
  \* client scripts: the script that runs and where it is, the requests it
  \* issued on its session and the state of the handshake when each went out
  script, step, testIdx, callIdx, requests, handshake, runs, passed, failed,
  \* stock server: the two CSV files; the tool call that was the last thing
  \* to touch them, its reply and the files as they were before it
  serverUp, portfolioFile, balanceFile, ledgerCalls, removals, lastOp, reply,
  before,
  \* the shares bought of each stock, those of the holdings found at the start
  \* included (an observation)
  bought,
  \* two server processes: their tool calls in progress, and what is known of
  \* the interleaving
  procs, overlapped, writeOrder, raceStart,
  \* document search: the chunks of the vector store in the order it ranks
  \* them, and the last document_search call with what the store returned to it
  store, searches, lastSearch, searchReply

clientVars == <<message_id, session_url, initialized, pc, method, request_id,
                endpoint_url, event_type, ret, calls, conn, nread, line, phase,
                endpointPending, endpointData, endpointSets, endpointEvents,
                wire, allocated, failure, skipped, peer,
                 answered>>
weatherVars == <<toolCalls, lastCall, response, lookups, lookupFailures,
                 listed, listings>>
scriptVars == <<script, step, testIdx, callIdx, requests, handshake, runs,
                passed, failed>>
ledgerVars == <<serverUp, portfolioFile, balanceFile, ledgerCalls, removals,
                lastOp, reply, before, bought>>
raceVars == <<procs, overlapped, writeOrder, raceStart>>
searchVars == <<store, searches, lastSearch, searchReply>>
vars == <<clientVars, weatherVars, scriptVars, ledgerVars, raceVars,
          searchVars>>

\* ------------------------------------------------------------ client: data
\* Python's None for the string-valued fields and locals
None == "None"
\* endpoint_url is text: a sequence of text pieces, NoUrl standing for None
NoUrl == <<>>
base_url == <<"http://127.0.0.1:8010">>

Methods == {"initialize", "tools/list", "tools/call"}

\* JSON-RPC messages the server can put on the stream for request id i
CapsResult(i) ==
  [jsonrpc |-> "2.0", id |-> i,
   result |-> [capabilities |-> "{}", protocolVersion |-> "2024-11-05"]]
PlainResult(i) ==
  [jsonrpc |-> "2.0", id |-> i, result |-> [content |-> "text"]]
ErrorMsg(i) ==
  [jsonrpc |-> "2.0", id |-> i, error |-> [message |-> "Invalid request"]]
Notification == [jsonrpc |-> "2.0", method |-> "notifications/message"]

\* ids of the requests POSTed on the current connection
PostedIds == {wire[k].id : k \in {j \in DOMAIN wire : wire[j].conn = conn}}

Responses(ids) ==
  {[form |-> "object", obj |-> m] :
     m \in UNION {{CapsResult(i), PlainResult(i), ErrorMsg(i)} : i \in ids}}

\* payloads of a `data: ` line, after strip(): any text at all, with a
\* response for any id this client has built so far
AnyPayloads ==
  {[form |-> "path"], [form |-> "empty"], [form |-> "garbage"],
   [form |-> "scalar"], [form |-> "object", obj |-> Notification]}
  \cup Responses(1..message_id)

AnyLines ==
  {[kind |-> "event", label |-> l] : l \in {"endpoint", "message"}}
  \cup {[kind |-> "other"]}
  \cup {[kind |-> "data", payload |-> p] : p \in AnyPayloads}

\* a server that keeps to the protocol announces the endpoint once, label and
\* path, and from then on sends keep-alives, notifications and responses to
\* what was POSTed on the connection
AbidingLines ==
  IF endpointPending
    THEN {[kind |-> "data", payload |-> [form |-> "path"]]}
    ELSE IF endpointEvents = 0
           THEN {[kind |-> "event", label |-> "endpoint"], [kind |-> "other"]}
           ELSE {[kind |-> "event", label |-> "message"], [kind |-> "other"],
                 [kind |-> "data",
                  payload |-> [form |-> "object", obj |-> Notification]]}
                \cup {[kind |-> "data", payload |-> p] : p \in Responses(PostedIds)}

\* the POSTs made on the current connection, in order
ConnPosts == SelectSeq(wire, LAMBDA w : w.conn = conn)

\* a server that does what the client waits for and nothing else: it
\* announces the endpoint once, label and path, and answers each POST of the
\* connection once, in order, under the label `message`: an initialize with a
\* result that holds capabilities, any other request with a result or an error
LiveLines ==
  IF endpointPending
    THEN {[kind |-> "data", payload |-> [form |-> "path"]]}
    ELSE IF endpointEvents = 0
           THEN {[kind |-> "event", label |-> "endpoint"]}
    ELSE IF answered >= Len(ConnPosts) THEN {}
    ELSE IF event_type # "message"
           THEN {[kind |-> "event", label |-> "message"]}
    ELSE LET post == ConnPosts[answered + 1]
         IN {[kind |-> "data", payload |-> [form |-> "object", obj |-> m]] :
               m \in IF post.method = "initialize"
                       THEN {CapsResult(post.id)}
                       ELSE {PlainResult(post.id), ErrorMsg(post.id)}}

\* the lines aiter_lines() can yield next (line 58)
StreamLines ==
  IF peer = "any" THEN AnyLines
  ELSE IF peer = "live" THEN LiveLines
  ELSE AbidingLines

\* line[6:].strip() as text
Text(p) ==
  CASE p.form = "path"    -> <<"/messages/?session_id=abc">>
    [] p.form = "empty"   -> <<>>
    [] p.form = "garbage" -> <<"{\"jsonrpc\": \"2.0\", \"id\"">>
    [] p.form = "scalar"  -> <<"null">>
    [] OTHER              -> <<"{...}">>

\* json.loads(data): the exception it raises, or "ok"
json_loads(p) ==
  IF p.form \in {"path", "garbage"} THEN "JSONDecodeError" ELSE "ok"

\* `"result" in parsed` on a parsed value that is no container raises TypeError
MembershipTest(p) == IF p.form = "scalar" THEN "TypeError" ELSE "ok"

\* line 141: the exceptions the except clause inside the loop swallows
CaughtInLoopNothing(exc) == FALSE
CaughtInLoop(exc) == exc = "JSONDecodeError"

\* lines 119-121: the message counts as the initialization response
IsInitAck(parsed) ==
  "result" \in DOMAIN parsed /\ "capabilities" \in DOMAIN parsed.result

\* lines 119-121: the branch is taken only while the client is not initialized
TakenAsInitAckAlways(init, parsed) == IsInitAck(parsed)
TakenAsInitAck(init, parsed) == ~init /\ IsInitAck(parsed)

\* line 137: the message is taken as the response of the call
IsResponseResultOnly(parsed) == "result" \in DOMAIN parsed
IsResponse(parsed) == "result" \in DOMAIN parsed \/ "error" \in DOMAIN parsed

\* lines 18-21: the new value of message_id, which is also the id returned
next_id_stuck(mid) == mid
next_id(mid) == mid + 1

\* lines 96 and 110: event_type after an endpoint data line was handled
AfterEndpointKept(et) == et
AfterEndpoint(et) == None

\* ------------------------------------------------------------ weather: data
\* text is a sequence of pieces; " " is a piece of whitespace
ToolNames == {"get_weather", "get_forecast", "get_weather ", "GET_FORECAST",
              "list_stocks", ""}
Cities == {<<>>, <<" ">>, <<"London">>, <<" ", "London", " ">>, <<"Atlantis">>}
\* the `arguments` dict of a call: `city` absent, or a string
NoArguments == [k \in {} |-> <<>>]
Arguments == {NoArguments} \cup {[city |-> c] : c \in Cities}

\* what the geocoding service does with a lookup, and the data services
GeoOutcomes == {"found", "notfound", "raise"}
DataOutcomes == {"ok", "raise"}

RECURSIVE lstrip(_)
lstrip(s) == IF s # <<>> /\ Head(s) = " " THEN lstrip(Tail(s)) ELSE s
RECURSIVE rstrip(_)
rstrip(s) ==
  IF s # <<>> /\ s[Len(s)] = " " THEN rstrip(SubSeq(s, 1, Len(s) - 1)) ELSE s
\* str.strip()
strip(s) == rstrip(lstrip(s))

\* arguments.get("city", "")
GetCity(arguments) ==
  IF "city" \in DOMAIN arguments THEN arguments.city ELSE <<>>

\* lines 21-50: the dict get_coordinates returns; a lookup that raises is
\* caught at line 49 and comes back as an error dict
get_coordinates_unguarded(city, geo) ==
  CASE geo = "found"    -> [name |-> city, country |-> <<"GB">>]
    [] geo = "notfound" -> [error |-> <<"City '">> \o city \o <<"' not found">>]
    [] OTHER            -> [raised |-> <<"timed out">>]
get_coordinates(city, geo) ==
  CASE geo = "found"    -> [name |-> city, country |-> <<"GB">>]
    [] geo = "notfound" -> [error |-> <<"City '">> \o city \o <<"' not found">>]
    [] OTHER            -> [error |-> <<"Failed to get coordinates: ", "timed out">>]

\* lines 53-97
get_weather_data(outcome) ==
  IF outcome = "ok"
    THEN [timezone |-> <<"UTC">>, records |-> <<"7 days">>]
    ELSE [error |-> <<"Failed to get weather data: ", "timed out">>]

\* lines 100-139
get_forecast_data(outcome) ==
  IF outcome = "ok"
    THEN [timezone |-> <<"UTC">>, records |-> <<"7 days">>]
    ELSE [error |-> <<"Failed to get forecast data: ", "timed out">>]

\* [TextContent(type="text", text=...)]
TextContent(text) == [type |-> "text", text |-> text]
ErrorText(message) == TextContent(<<"Error: ">> \o message)
\* an exception that leaves the function instead of a value
Exception(message) == [type |-> "raised", text |-> message]

\* lines 211, 213 and 239, 241: `not city` after arguments.get("city", "").strip()
CityAsGiven(arguments) == GetCity(arguments)
CityArgument(arguments) == strip(GetCity(arguments))

\* lines 210, 238, 277: the branch of call_tool a name selects
ResolveElse(name) ==
  IF name = "get_weather" THEN "get_weather" ELSE "get_forecast"
Resolve(name) ==
  IF name = "get_weather" THEN "get_weather"
  ELSE IF name = "get_forecast" THEN "get_forecast"
  ELSE "unknown"

\* lines 205-277: the result of call_tool and the lookups it made, as
\* [content, made]; call_tool has no try, so what a callee raises leaves it
call_tool(name, arguments, geo, data) ==
  LET city   == CityArgument(arguments)
      coords == get_coordinates(city, geo)
  IN
  CASE Resolve(name) = "get_weather" ->
         IF city = <<>>
           THEN [content |-> ErrorText(<<"City name is required">>), made |-> <<>>]
         ELSE IF "raised" \in DOMAIN coords
           THEN [content |-> Exception(coords.raised), made |-> <<"geocoding">>]
         ELSE IF "error" \in DOMAIN coords
           THEN \* lines 147-150, 218-219
                [content |-> ErrorText(coords.error), made |-> <<"geocoding">>]
         ELSE IF "error" \in DOMAIN get_weather_data(data)
           THEN [content |-> ErrorText(get_weather_data(data).error),
                 made |-> <<"geocoding", "archive">>]
         ELSE [content |-> TextContent(<<"Weather Data (PAST 7 DAYS) for ">>
                                        \o coords.name),
               made |-> <<"geocoding", "archive">>]
    [] Resolve(name) = "get_forecast" ->
         IF city = <<>>
           THEN [content |-> ErrorText(<<"City name is required">>), made |-> <<>>]
         ELSE IF "raised" \in DOMAIN coords
           THEN [content |-> Exception(coords.raised), made |-> <<"geocoding">>]
         ELSE IF "error" \in DOMAIN coords
           THEN [content |-> ErrorText(coords.error), made |-> <<"geocoding">>]
         ELSE IF "error" \in DOMAIN get_forecast_data(data)
           THEN [content |-> ErrorText(get_forecast_data(data).error),
                 made |-> <<"geocoding", "forecast">>]
         ELSE [content |-> TextContent(<<"Weather Forecast (NEXT 7 DAYS) for ">>
                                        \o coords.name),
               made |-> <<"geocoding", "forecast">>]
    [] OTHER ->
         \* line 277
         [content |-> ErrorText(<<"Unknown tool '", name, "'">>), made |-> <<>>]

\* lines 167-201: the descriptors list_tools returns, built anew on each call
ToolDescriptor(name) ==
  [name |-> name,
   inputSchema |-> [type |-> "object", properties |-> {"city"},
                    required |-> <<"city">>]]
list_tools_swapped == <<ToolDescriptor("get_forecast"), ToolDescriptor("get_weather")>>
list_tools == <<ToolDescriptor("get_weather"), ToolDescriptor("get_forecast")>>

\* weather_mcp_sse_server.py lines 25-43: no try, a failed lookup raises
sse_get_coordinates(city, geo) ==
  CASE geo = "found"    -> [name |-> city, country |-> <<"GB">>]
    [] geo = "notfound" -> [error |-> <<"City '">> \o city \o <<"' not found">>]
    [] OTHER            -> [raised |-> <<"timed out">>]

\* weather_mcp_sse_server.py lines 127-174: the tools get_weather and
\* get_forecast, as [content, made]; the city is looked up as it was given
sse_tool(name, city, geo, data) ==
  LET coords == sse_get_coordinates(city, geo)
      lookup == IF name = "get_weather" THEN "archive" ELSE "forecast"
  IN
  IF strip(city) = <<>>
    THEN [content |-> [type |-> "dict", error |-> <<"City name is required">>],
          made |-> <<>>]
  ELSE IF "raised" \in DOMAIN coords
    THEN [content |-> Exception(coords.raised), made |-> <<"geocoding">>]
  ELSE IF "error" \in DOMAIN coords
    THEN [content |-> [type |-> "dict", error |-> coords.error],
          made |-> <<"geocoding">>]
  ELSE IF data = "raise"
    THEN [content |-> Exception(<<"timed out">>), made |-> <<"geocoding", lookup>>]
  ELSE [content |-> [type |-> "dict", city |-> coords.name],
        made |-> <<"geocoding", lookup>>]

NoCall == [server |-> "none", name |-> "", arguments |-> NoArguments,
           made |-> <<>>, geo |-> "found", data |-> "ok"]

\* the lookups of a call that raised inside the lookup function
Failed(made, geo, data) ==
  IF made = <<>> THEN 0
  ELSE IF geo = "raise" THEN 1
  ELSE IF Len(made) = 2 /\ data = "raise" THEN 1
  ELSE 0

\* ------------------------------------------------------------- ledger: data
\* a stock id is text, a sequence of characters
StockIds == {<<"A">>, <<" ", "a">>, <<"G">>, <<"g", " ">>}
Quantities == {-1, 0, 1, 2}
\* money in thousandths: the files hold two decimals, an amount may have more
Amounts == {-10, 0, 4, 10, 20}
\* stockUtilityMCP.py line 241
INITIAL_BALANCE == 100000000

\* str.upper(), character by character
UpperChar(c) == CASE c = "a" -> "A" [] c = "g" -> "G" [] OTHER -> c
upper(s) == [i \in DOMAIN s |-> UpperChar(s[i])]

\* lines 147, 165: stock_id.upper().strip()
Normalize(stock_id) == strip(upper(stock_id))

\* the order of str: by code point, a proper prefix first
Code(c) == CASE c = " " -> 32 [] c = "A" -> 65 [] c = "G" -> 71
             [] c = "a" -> 97 [] OTHER -> 103
RECURSIVE TextLess(_, _)
TextLess(s, t) ==
  IF t = <<>> THEN FALSE
  ELSE IF s = <<>> THEN TRUE
  ELSE IF Head(s) # Head(t) THEN Code(Head(s)) < Code(Head(t))
  ELSE TextLess(Tail(s), Tail(t))

\* a dict is the sequence of its items in insertion order
Item(k, v) == [stock_id |-> k, quantity |-> v]
Keys(d) == {d[i].stock_id : i \in DOMAIN d}
dict_get(d, k, default) ==
  IF k \in Keys(d)
    THEN LET i == CHOOSE j \in DOMAIN d : d[j].stock_id = k IN d[i].quantity
    ELSE default
dict_set(d, k, v) ==
  IF k \in Keys(d)
    THEN [i \in DOMAIN d |-> IF d[i].stock_id = k THEN Item(k, v) ELSE d[i]]
    ELSE Append(d, Item(k, v))
dict_del(d, k) == SelectSeq(d, LAMBDA it : it.stock_id # k)
RECURSIVE FromRows(_, _)
FromRows(rows, d) ==
  IF rows = <<>> THEN d
  ELSE FromRows(Tail(rows), dict_set(d, Head(rows).stock_id, Head(rows).quantity))

\* sorted(portfolio.items()): by insertion
RECURSIVE Insert(_, _)
Insert(it, sorted) ==
  IF sorted = <<>> THEN <<it>>
  ELSE IF TextLess(it.stock_id, Head(sorted).stock_id) THEN <<it>> \o sorted
  ELSE <<Head(sorted)>> \o Insert(it, Tail(sorted))
RECURSIVE sorted_items(_)
sorted_items(d) ==
  IF d = <<>> THEN <<>> ELSE Insert(Head(d), sorted_items(Tail(d)))
RECURSIVE sum_values(_)
sum_values(d) == IF d = <<>> THEN 0 ELSE Head(d).quantity + sum_values(Tail(d))

\* a CSV file: absent, or its data rows (the header apart)
NoFile == [exists |-> FALSE, rows |-> <<>>]
File(rows) == [exists |-> TRUE, rows |-> rows]
NoBalanceFile == [exists |-> FALSE, balance |-> 0]
BalanceFile(b) == [exists |-> TRUE, balance |-> b]

\* lines 30-39: the dict read, and the file as read_portfolio leaves it (a
\* missing file is created with its header, lines 37-38 and 21-27)
read_portfolio(file) ==
  IF file.exists
    THEN [portfolio |-> FromRows(file.rows, <<>>), file |-> file]
    ELSE [portfolio |-> <<>>, file |-> File(<<>>)]

\* lines 42-48: the file write_portfolio leaves
write_portfolio(portfolio) ==
  File(SelectSeq(portfolio, LAMBDA it : it.quantity > 0))

\* round(x, 2) on thousandths, to the nearest hundredth (a tie to the even)
round2(x) ==
  LET r == x % 10
      down == x - r
  IN IF r < 5 THEN down
     ELSE IF r > 5 THEN down + 10
     ELSE IF (down \div 10) % 2 = 0 THEN down ELSE down + 10

\* lines 64-69: the balance read, or FileNotFoundError raised by open()
read_balance(file) ==
  IF file.exists THEN [balance |-> file.balance]
  ELSE [raised |-> <<"FileNotFoundError", "/tmp/account_balance.csv">>]
\* lines 72-76
write_balance(new_balance) == BalanceFile(round2(new_balance))

\* a tool's return value, the files as it leaves them and the file accesses it
\* made
Outcome(r, pf, bf, accesses) ==
  [reply |-> r, portfolioFile |-> pf, balanceFile |-> bf, accesses |-> accesses]
Refused(message) == [success |-> FALSE, message |-> <<message>>]

\* lines 144, 162, 87, 114: a quantity or an amount the tools accept
NonNegative(x) == x >= 0
Positive(x) == x > 0

\* line 92: more is to be debited than the account holds
InsufficientNever(amount, balance) == FALSE
Insufficient(amount, balance) == amount > balance

\* line 178: what is left of a holding after a sale
RemainingAdded(held, quantity) == held + quantity
Remaining(held, quantity) == held - quantity

\* line 149: the new holding
AccumulateOverwrites(held, quantity) == quantity
Accumulate(held, quantity) == held + quantity

\* line 168: the stock has no entry in the portfolio
NotHeldNever(portfolio, id) == FALSE
NotHeld(portfolio, id) == id \notin Keys(portfolio)

\* line 171: more is to be sold than is held
NotEnoughOrAll(quantity, held) == quantity >= held
NotEnough(quantity, held) == quantity > held

\* lines 199-202: the items in the order list_stocks reports them
ListedUnsorted(portfolio) == portfolio
Listed(portfolio) == sorted_items(portfolio)

\* lines 142-157
buy_stock(pf, bf, stock_id, quantity) ==
  IF ~Positive(quantity)
    THEN Outcome(Refused("Quantity must be positive"), pf, bf, <<>>)
    ELSE LET id == Normalize(stock_id)
             rd == read_portfolio(pf)
             portfolio == dict_set(rd.portfolio, id,
                                   Accumulate(dict_get(rd.portfolio, id, 0),
                                              quantity))
         IN Outcome([success |-> TRUE, stock_id |-> id,
                     quantity |-> dict_get(portfolio, id, 0),
                     message |-> <<"Bought ", quantity, " shares of ", id>>],
                    write_portfolio(portfolio), bf, <<"read", "write">>)

\* lines 160-189
sell_stock(pf, bf, stock_id, quantity) ==
  IF ~Positive(quantity)
    THEN Outcome(Refused("Quantity must be positive"), pf, bf, <<>>)
    ELSE LET id == Normalize(stock_id)
             rd == read_portfolio(pf)
             held == dict_get(rd.portfolio, id, 0)
             sold == dict_set(rd.portfolio, id, Remaining(held, quantity))
             portfolio == IF dict_get(sold, id, 0) = 0 THEN dict_del(sold, id)
                          ELSE sold
         IN IF NotHeld(rd.portfolio, id)
              THEN Outcome(Refused("Stock not found"), rd.file, bf, <<"read">>)
            ELSE IF NotEnough(quantity, held)
              THEN Outcome([success |-> FALSE, message |-> <<"Not enough shares">>,
                            available |-> held],
                           rd.file, bf, <<"read">>)
            ELSE Outcome([success |-> TRUE, stock_id |-> id,
                          quantity |-> dict_get(portfolio, id, 0),
                          message |-> <<"Sold ", quantity, " shares of ", id>>],
                         write_portfolio(portfolio), bf, <<"read", "write">>)

\* lines 192-203
list_stocks(pf, bf) ==
  LET rd == read_portfolio(pf)
  IN Outcome([success |-> TRUE,
              total_positions |-> Len(rd.portfolio),
              total_shares |-> sum_values(rd.portfolio),
              stocks |-> Listed(rd.portfolio)],
             rd.file, bf, <<"read">>)

\* lines 82-106
debit_money(pf, bf, amount) ==
  IF ~Positive(amount)
    THEN Outcome(Refused("Amount must be positive"), pf, bf, <<>>)
    ELSE LET rd == read_balance(bf)
         IN IF "raised" \in DOMAIN rd
              THEN Outcome(Exception(rd.raised), pf, bf, <<"read">>)
            ELSE IF Insufficient(amount, rd.balance)
              THEN Outcome([success |-> FALSE,
                            message |-> <<"Insufficient balance">>,
                            current_balance |-> round2(rd.balance)],
                           pf, bf, <<"read">>)
            ELSE Outcome([success |-> TRUE,
                          balance |-> round2(rd.balance - amount),
                          message |-> <<"Debited ", amount>>],
                         pf, write_balance(round2(rd.balance - amount)),
                         <<"read", "write">>)

\* lines 109-125
credit_money(pf, bf, amount) ==
  IF ~Positive(amount)
    THEN Outcome(Refused("Amount must be positive"), pf, bf, <<>>)
    ELSE LET rd == read_balance(bf)
         IN IF "raised" \in DOMAIN rd
              THEN Outcome(Exception(rd.raised), pf, bf, <<"read">>)
            ELSE Outcome([success |-> TRUE,
                          balance |-> round2(rd.balance + amount),
                          message |-> <<"Credited ", amount>>],
                         pf, write_balance(round2(rd.balance + amount)),
                         <<"read", "write">>)

\* lines 128-136
get_balance(pf, bf) ==
  LET rd == read_balance(bf)
  IN IF "raised" \in DOMAIN rd
       THEN Outcome(Exception(rd.raised), pf, bf, <<"read">>)
       ELSE Outcome([success |-> TRUE, balance |-> round2(rd.balance)],
                    pf, bf, <<"read">>)

\* the tool calls a client can make, with their arguments
LedgerOps ==
  {[tool |-> t, stock_id |-> i, quantity |-> q] :
     t \in {"buy_stock", "sell_stock"}, i \in StockIds, q \in Quantities}
  \cup {[tool |-> t, amount |-> a] : t \in {"debit_money", "credit_money"},
                                     a \in Amounts}
  \cup {[tool |-> "list_stocks"], [tool |-> "get_balance"]}

\* the tool function the framework runs for a call
RunTool(op, pf, bf) ==
  CASE op.tool = "buy_stock"    -> buy_stock(pf, bf, op.stock_id, op.quantity)
    [] op.tool = "sell_stock"   -> sell_stock(pf, bf, op.stock_id, op.quantity)
    [] op.tool = "list_stocks"  -> list_stocks(pf, bf)
    [] op.tool = "debit_money"  -> debit_money(pf, bf, op.amount)
    [] op.tool = "credit_money" -> credit_money(pf, bf, op.amount)
    [] OTHER                    -> get_balance(pf, bf)

\* the ledger files the server can find in /tmp when it starts: none, or files
\* an earlier run wrote
FoundPortfolios == {NoFile, File(<<>>), File(<<Item(<<"G">>, 2), Item(<<"A">>, 1)>>)}
FoundBalances == {NoBalanceFile, BalanceFile(0), BalanceFile(10), BalanceFile(30)}

\* the stock ids as the tools store them
Tickers == {Normalize(stock_id) : stock_id \in StockIds}

NoOp == [tool |-> "none"]
NoReply == [success |-> FALSE, message |-> <<>>]
IdleProc == [pc |-> "idle", op |-> NoOp, portfolio |-> <<>>, balance |-> 0,
             wrote |-> FALSE]

\* ---------------------------------------------------- document search: data
TOP_K == 3

\* a stored chunk with its distance to the query, in hundredths
Chunks == [page_content : {"c1", "c2"}, score : {20, 120}]
\* the queries a client sends
Queries == {<<>>, <<" ">>, <<"q">>, <<" ", "q">>}

\* line 42: the k best-ranked chunks, fewer when fewer are stored
similarity_search_with_score(db, query, k) ==
  SubSeq(db, 1, IF Len(db) < k THEN Len(db) ELSE k)

\* line 55: min(scores)
RECURSIVE max(_)
max(scores) ==
  IF Len(scores) = 1 THEN Head(scores)
  ELSE IF Head(scores) > max(Tail(scores)) THEN Head(scores)
  ELSE max(Tail(scores))
RECURSIVE min(_)
min(scores) ==
  IF Len(scores) = 1 THEN Head(scores)
  ELSE IF Head(scores) < min(Tail(scores)) THEN Head(scores)
  ELSE min(Tail(scores))

\* lines 40, 45: the value returned when there is nothing to return (1.0)
NoMatch == [max_score |-> 100, chunks |-> <<>>]

\* lines 28-57: the return value, whether the store was queried and what it
\* returned
document_search(db, query) ==
  IF query = <<>> \/ strip(query) = <<>>
    THEN [reply |-> NoMatch, queried |-> FALSE, results |-> <<>>]
    ELSE LET results == similarity_search_with_score(db, query, TOP_K)
             chunks == [i \in DOMAIN results |-> results[i].page_content]
             scores == [i \in DOMAIN results |-> results[i].score]
         IN IF results = <<>>
              THEN [reply |-> NoMatch, queried |-> TRUE, results |-> results]
              ELSE [reply |-> [max_score |-> min(scores), chunks |-> chunks],
                    queried |-> TRUE, results |-> results]

NoSearch == [query |-> <<>>, queried |-> FALSE, results |-> <<>>]

\* ------------------------------------------------------------------- Init
Start(server) ==
  /\ peer = server
  /\ answered = 0
  /\ message_id = 0
  /\ session_url = None
  /\ initialized = FALSE
  /\ pc = "idle"
  /\ method = None
  /\ request_id = 0
  /\ endpoint_url = NoUrl
  /\ event_type = None
  /\ ret = [kind |-> "pending"]
  /\ calls = 0
  /\ conn = 0
  /\ nread = 0
  /\ line = [kind |-> "none"]
  /\ phase = "Unconnected"
  /\ endpointPending = FALSE
  /\ endpointData = NoUrl
  /\ endpointSets = 0
  /\ endpointEvents = 0
  /\ wire = <<>>
  /\ allocated = <<>>
  /\ failure = "none"
  /\ skipped = FALSE
  /\ toolCalls = 0
  /\ lastCall = NoCall
  /\ response = TextContent(<<>>)
  /\ lookups = <<>>
  /\ lookupFailures = 0
  /\ listed = <<>>
  /\ listings = 0
  /\ script = "none"
  /\ step = "idle"
  /\ testIdx = 0
  /\ callIdx = 0
  /\ requests = <<>>
  /\ handshake = "none"
  /\ runs = 0
  /\ passed = 0
  /\ failed = 0
  /\ serverUp = FALSE
  /\ portfolioFile = NoFile
  /\ balanceFile = NoBalanceFile
  /\ ledgerCalls = 0
  /\ removals = 0
  /\ lastOp = [op |-> NoOp, accesses |-> <<>>]
  /\ reply = NoReply
  /\ before = [portfolioFile |-> NoFile, balanceFile |-> NoBalanceFile]
  /\ bought = [t \in Tickers |-> 0]
  /\ procs = [p \in {1, 2} |-> IdleProc]
  /\ overlapped = FALSE
  /\ writeOrder = <<>>
  /\ raceStart = [portfolioFile |-> NoFile, balanceFile |-> NoBalanceFile]
  /\ store = <<>>
  /\ searches = 0
  /\ lastSearch = NoSearch
  /\ searchReply = NoMatch

Init == Start("abiding")
InitAny == Start("any")

\* --------------------------------------------------------- client: actions
\* lines 23-47: build the request (allocating its id) and open the stream
SendRequest(m) ==
  /\ pc = "idle"
  /\ calls < MaxCalls
  /\ calls' = calls + 1
  /\ method' = m
  /\ message_id' = next_id(message_id)
  /\ request_id' = message_id'
  /\ allocated' = Append(allocated, message_id')
  /\ pc' = "connecting"
  /\ ret' = [kind |-> "pending"]
  /\ endpoint_url' = NoUrl
  /\ event_type' = None
  /\ line' = [kind |-> "none"]
  /\ phase' = "Unconnected"
  /\ endpointPending' = FALSE
  /\ endpointData' = NoUrl
  /\ endpointSets' = 0
  /\ endpointEvents' = 0
  /\ failure' = "none"
  /\ skipped' = FALSE
  /\ answered' = 0
  /\ UNCHANGED <<session_url, initialized, conn, nread, wire, peer>>
  /\ UNCHANGED <<weatherVars, scriptVars, ledgerVars, raceVars,
               searchVars>>

\* what the frame keeps when the call ends
Return(value, why) ==
  /\ pc' = "idle"
  /\ ret' = value
  /\ failure' = why

ReturnNone(why) == Return([kind |-> "none"], why)

\* lines 40-52: the GET is answered 200 and the stream is open
Connected ==
  /\ pc = "connecting"
  /\ pc' = "read"
  /\ conn' = conn + 1
  /\ phase' = "AwaitingEndpoint"
  /\ UNCHANGED <<message_id, session_url, initialized, method, request_id,
                 endpoint_url, event_type, ret, calls, nread, line,
                 endpointPending, endpointData, endpointSets, endpointEvents,
                 wire, allocated, failure, skipped, peer,
                 answered>>
  /\ UNCHANGED <<weatherVars, scriptVars, ledgerVars, raceVars,
               searchVars>>

\* lines 48-50: any other status
ConnectRejected ==
  /\ pc = "connecting"
  /\ ReturnNone("status")
  /\ UNCHANGED <<message_id, session_url, initialized, method, request_id,
                 endpoint_url, event_type, calls, conn, nread, line, phase,
                 endpointPending, endpointData, endpointSets, endpointEvents,
                 wire, allocated, skipped, peer,
                 answered>>
  /\ UNCHANGED <<weatherVars, scriptVars, ledgerVars, raceVars,
               searchVars>>

\* lines 146-150: the GET raises (connection refused, timeout)
ConnectFailed ==
  /\ pc = "connecting"
  /\ ReturnNone("refused")
  /\ UNCHANGED <<message_id, session_url, initialized, method, request_id,
                 endpoint_url, event_type, calls, conn, nread, line, phase,
                 endpointPending, endpointData, endpointSets, endpointEvents,
                 wire, allocated, skipped, peer,
                 answered>>
  /\ UNCHANGED <<weatherVars, scriptVars, ledgerVars, raceVars,
               searchVars>>

\* line 144: the stream ends before a response was returned
StreamEnd ==
  /\ pc = "read"
  /\ ReturnNone("closed")
  /\ UNCHANGED <<message_id, session_url, initialized, method, request_id,
                 endpoint_url, event_type, calls, conn, nread, line, phase,
                 endpointPending, endpointData, endpointSets, endpointEvents,
                 wire, allocated, skipped, peer,
                 answered>>
  /\ UNCHANGED <<weatherVars, scriptVars, ledgerVars, raceVars,
               searchVars>>

\* lines 146-150: reading the next line raises (read timeout, connection lost)
ReadFailed ==
  /\ pc = "read"
  /\ ReturnNone("timeout")
  /\ UNCHANGED <<message_id, session_url, initialized, method, request_id,
                 endpoint_url, event_type, calls, conn, nread, line, phase,
                 endpointPending, endpointData, endpointSets, endpointEvents,
                 wire, allocated, skipped, peer,
                 answered>>
  /\ UNCHANGED <<weatherVars, scriptVars, ledgerVars, raceVars,
               searchVars>>

\* one POST as seen on the wire; ready: the connection's session was Ready
Post(id, m, role, ph) ==
  [conn |-> conn, id |-> id, method |-> m, role |-> role, ready |-> ph = "Ready"]

\* the session phase of section 4.2 after an initialize went out
AfterInitializePost(ph) == IF ph = "AwaitingEndpoint" THEN "Initializing" ELSE ph

\* lines 59-60
ReadEvent(l) ==
  /\ event_type' = l.label
  /\ endpointPending' = (l.label = "endpoint")
  /\ UNCHANGED <<message_id, session_url, initialized, pc, method, request_id,
                 endpoint_url, ret, phase, endpointData, endpointSets,
                 endpointEvents, wire, allocated, failure, skipped>>

\* a line with neither prefix
ReadOther ==
  UNCHANGED <<message_id, session_url, initialized, pc, method, request_id,
              endpoint_url, event_type, ret, phase, endpointPending,
              endpointData, endpointSets, endpointEvents, wire, allocated,
              failure, skipped>>

\* what the stream itself says about a data line: it is the endpoint's when
\* the last label was `endpoint` and no data line followed it yet
ObserveData(p) ==
  /\ endpointPending' = FALSE
  /\ endpointData' = IF endpointPending THEN Text(p) ELSE endpointData
  /\ endpointEvents' = IF endpointPending THEN endpointEvents + 1 ELSE endpointEvents

\* lines 66-111: data under the label `endpoint`
ReadEndpointData(p, postOk) ==
  /\ endpoint_url' = base_url \o Text(p)
  /\ endpointSets' = endpointSets + 1
  /\ IF ~initialized /\ method # "initialize"
       THEN \* lines 71-97: initialize first
            /\ message_id' = next_id(message_id)
            /\ allocated' = Append(allocated, message_id')
            /\ wire' = Append(wire, Post(message_id', "initialize", "init", phase))
            /\ phase' = AfterInitializePost(phase)
       ELSE \* lines 99-111: POST the caller's request
            /\ wire' = Append(wire, Post(request_id, method, "request", phase))
            /\ phase' = IF method = "initialize"
                          THEN AfterInitializePost(phase) ELSE phase
            /\ UNCHANGED <<message_id, allocated>>
  /\ IF postOk
       THEN /\ event_type' = AfterEndpoint(event_type)
            /\ UNCHANGED <<pc, ret, failure>>
       ELSE /\ ReturnNone("post")
            /\ UNCHANGED event_type
  /\ UNCHANGED <<session_url, initialized, method, request_id, skipped>>

\* lines 114 and 141-142: the line is passed over, the loop goes on
SkipLine ==
  /\ skipped' = TRUE
  /\ UNCHANGED <<initialized, pc, ret, phase, wire, failure>>

\* an exception raised while the payload is handled: swallowed inside the
\* loop (lines 141-142) or caught by lines 146-150, which return None
Raised(exc) ==
  IF CaughtInLoop(exc)
    THEN SkipLine
    ELSE /\ ReturnNone(exc)
         /\ UNCHANGED <<initialized, phase, wire, skipped>>

\* lines 118-139: a payload that parsed to an object
HandleParsed(parsed, postOk) ==
  LET ack == "result" \in DOMAIN parsed
             /\ "capabilities" \in DOMAIN parsed.result
      ph  == IF ack /\ phase = "Initializing" THEN "Ready" ELSE phase
  IN
  /\ phase' = ph
  /\ UNCHANGED skipped
  /\ IF TakenAsInitAck(initialized, parsed)
       THEN \* lines 119-134: initialized, now POST the caller's request
            /\ initialized' = TRUE
            /\ wire' = IF endpoint_url # NoUrl
                          THEN Append(wire, Post(request_id, method, "request", ph))
                          ELSE wire
            /\ IF postOk /\ endpoint_url # NoUrl
                 THEN UNCHANGED <<pc, ret, failure>>
                 ELSE ReturnNone("post")
       ELSE IF IsResponse(parsed)
              THEN \* lines 137-139
                   /\ Return([kind |-> "response", msg |-> parsed],
                             IF phase = "Initializing" /\ "error" \in DOMAIN parsed
                               THEN "init_error" ELSE failure)
                   /\ UNCHANGED <<initialized, wire>>
              ELSE UNCHANGED <<initialized, pc, ret, wire, failure>>

\* lines 114-142: any other data line
ReadMessageData(p, postOk) ==
  /\ UNCHANGED <<message_id, session_url, method, request_id, endpoint_url,
                 event_type, endpointSets, allocated>>
  /\ IF p.form = "empty"
       THEN SkipLine
       ELSE IF json_loads(p) # "ok"
              THEN Raised(json_loads(p))
              ELSE IF MembershipTest(p) # "ok"
                     THEN Raised(MembershipTest(p))
                     ELSE HandleParsed(p.obj, postOk)

\* lines 58-142: one turn of the read loop, the POST it makes included
ReadStep(l, postOk) ==
  /\ pc = "read"
  /\ l \in StreamLines
  /\ nread' = nread + 1
  /\ line' = l
  /\ answered' = IF peer = "live" /\ l.kind = "data" /\ ~endpointPending
                   THEN answered + 1 ELSE answered
  /\ UNCHANGED <<calls, conn, peer>>
  /\ UNCHANGED <<weatherVars, scriptVars, ledgerVars, raceVars,
               searchVars>>
  /\ IF l.kind = "event"
       THEN ReadEvent(l)
       ELSE IF l.kind = "data"
              THEN /\ ObserveData(l.payload)
                   /\ IF event_type = "endpoint"
                        THEN ReadEndpointData(l.payload, postOk)
                        ELSE ReadMessageData(l.payload, postOk)
              ELSE ReadOther

\* a turn of the read loop, while the stream has lines left to give
ReadLine(l, postOk) ==
  /\ nread < MaxLines
  /\ ReadStep(l, postOk)

ClientNext ==
  \/ \E m \in Methods : SendRequest(m)
  \/ Connected
  \/ ConnectRejected
  \/ ConnectFailed
  \/ \E l \in StreamLines, postOk \in BOOLEAN : ReadLine(l, postOk)
  \/ StreamEnd
  \/ ReadFailed

SpecClient == Init /\ [][ClientNext]_vars
SpecClientAny == InitAny /\ [][ClientNext]_vars

\* the client against the live server: the stream is as long as the server
\* makes it
InitLive == Start("live")

LiveNext ==
  \/ \E m \in Methods : SendRequest(m)
  \/ Connected
  \/ ConnectRejected
  \/ ConnectFailed
  \/ \E l \in StreamLines, postOk \in BOOLEAN : ReadStep(l, postOk)
  \/ StreamEnd
  \/ ReadFailed

\* the server answers the GET, sends every line it owes, and accepts the
\* POSTs; nothing obliges the transport to fail or the caller to call again
SpecClientLive ==
  /\ InitLive
  /\ [][LiveNext]_vars
  /\ WF_vars(Connected)
  /\ WF_vars(\E l \in StreamLines : ReadStep(l, TRUE))

\* -------------------------------------------------------- weather: actions
\* lines 205-277: the server dispatches one tools/call request
CallTool(name, arguments, geo, data) ==
  /\ toolCalls < MaxToolCalls
  /\ toolCalls' = toolCalls + 1
  /\ response' = call_tool(name, arguments, geo, data).content
  /\ lookups' = lookups \o call_tool(name, arguments, geo, data).made
  /\ lastCall' = [server |-> "stdio", name |-> name, arguments |-> arguments,
                  made |-> call_tool(name, arguments, geo, data).made,
                  geo |-> geo, data |-> data]
  /\ lookupFailures' = lookupFailures
                       + Failed(call_tool(name, arguments, geo, data).made, geo, data)
  /\ UNCHANGED <<listed, listings>>
  /\ UNCHANGED <<clientVars, scriptVars, ledgerVars, raceVars,
               searchVars>>

\* lines 167-201: the server answers one tools/list request
ListTools ==
  /\ listings < MaxToolCalls
  /\ listings' = listings + 1
  /\ listed' = list_tools
  /\ UNCHANGED <<toolCalls, lastCall, response, lookups, lookupFailures>>
  /\ UNCHANGED <<clientVars, scriptVars, ledgerVars, raceVars,
               searchVars>>

\* weather_mcp_sse_server.py lines 127-174: the streaming-HTTP server runs one
\* of its two tools on a city string
CallSseTool(name, city, geo, data) ==
  /\ toolCalls < MaxToolCalls
  /\ toolCalls' = toolCalls + 1
  /\ response' = sse_tool(name, city, geo, data).content
  /\ lookups' = lookups \o sse_tool(name, city, geo, data).made
  /\ lastCall' = [server |-> "sse", name |-> name, arguments |-> [city |-> city],
                  made |-> sse_tool(name, city, geo, data).made,
                  geo |-> geo, data |-> data]
  /\ lookupFailures' = lookupFailures
                       + Failed(sse_tool(name, city, geo, data).made, geo, data)
  /\ UNCHANGED <<listed, listings>>
  /\ UNCHANGED <<clientVars, scriptVars, ledgerVars, raceVars,
               searchVars>>

WeatherNext ==
  \/ \E name \in ToolNames, arguments \in Arguments,
        geo \in GeoOutcomes, data \in DataOutcomes :
       CallTool(name, arguments, geo, data)
  \/ ListTools
  \/ \E name \in {"get_weather", "get_forecast"}, city \in Cities,
        geo \in GeoOutcomes, data \in DataOutcomes :
       CallSseTool(name, city, geo, data)

SpecWeather == Init /\ [][WeatherNext]_vars

\* -------------------------------------------------------- client scripts
\* testStockUtilityMCP.py lines 30-129 and 145-150: the tool calls of each
\* test in order; asserted: an assert on the result follows the call
Tests ==
  << << [tool |-> "buy_stock", asserted |-> FALSE],
        [tool |-> "buy_stock", asserted |-> FALSE],
        [tool |-> "buy_stock", asserted |-> TRUE] >>,
     << [tool |-> "list_stocks", asserted |-> TRUE] >>,
     << [tool |-> "sell_stock", asserted |-> TRUE],
        [tool |-> "sell_stock", asserted |-> TRUE],
        [tool |-> "list_stocks", asserted |-> TRUE] >>,
     << [tool |-> "get_stock_price", asserted |-> TRUE] >> >>

\* test_weather_mcp_advanced.py line 62
ToolFor(data_type) == IF data_type = "past" THEN "get_weather" ELSE "get_forecast"

\* what a step of the session can do: return, raise, or (stock tests) return a
\* value that fails the assert after the call
Outcomes == {"ok", "raise"}

\* a request as it goes out on the session, with the handshake as it then is
Request(m, tool) == [method |-> m, tool |-> tool, handshake |-> handshake]

\* test_weather_mcp_advanced.py lines 76-79 and testStockUtilityMCP.py lines
\* 159-161: the statement after `await session.initialize()` runs only when
\* it returned; when it raised, control is in the except clause of the script
AfterInitializeAnyway(outcome, next) == next
AfterInitialize(outcome, next) == IF outcome = "ok" THEN next ELSE "except"

\* test_weather (line 48) or run_all_tests (line 136) is called
RunScript(c) ==
  /\ script = "none"
  /\ runs < MaxRuns
  /\ runs' = runs + 1
  /\ script' = c
  /\ step' = "open"
  /\ requests' = <<>>
  /\ handshake' = "none"
  /\ testIdx' = 0
  /\ callIdx' = 0
  /\ passed' = 0
  /\ failed' = 0
  /\ UNCHANGED <<clientVars, weatherVars, ledgerVars, raceVars,
               searchVars>>

\* lines 73-74 / 156-158: the transport and the ClientSession are entered
OpenSession(outcome) ==
  /\ step = "open"
  /\ step' = IF outcome = "ok" THEN "initialize" ELSE "except"
  /\ UNCHANGED <<script, testIdx, callIdx, requests, handshake, runs, passed,
                 failed>>
  /\ UNCHANGED <<clientVars, weatherVars, ledgerVars, raceVars,
               searchVars>>

\* line 76 / 159: session.initialize() sends the initialize request and waits
SessionInitialize ==
  /\ step = "initialize"
  /\ step' = "await_initialize"
  /\ requests' = Append(requests, Request("initialize", ""))
  /\ handshake' = "pending"
  /\ UNCHANGED <<script, testIdx, callIdx, runs, passed, failed>>
  /\ UNCHANGED <<clientVars, weatherVars, ledgerVars, raceVars,
               searchVars>>

\* session.initialize() returns or raises
InitializeReturns(outcome) ==
  /\ step = "await_initialize"
  /\ handshake' = IF outcome = "ok" THEN "done" ELSE "failed"
  /\ step' = AfterInitialize(outcome,
                             IF script = "weather" THEN "list_tools" ELSE "tests")
  /\ testIdx' = IF script = "stock" THEN 1 ELSE testIdx
  /\ callIdx' = IF script = "stock" THEN 1 ELSE callIdx
  /\ UNCHANGED <<script, requests, runs, passed, failed>>
  /\ UNCHANGED <<clientVars, weatherVars, ledgerVars, raceVars,
               searchVars>>

\* test_weather_mcp_advanced.py line 79
WeatherListTools(outcome) ==
  /\ script = "weather"
  /\ step = "list_tools"
  /\ requests' = Append(requests, Request("tools/list", ""))
  /\ step' = IF outcome = "ok" THEN "call_tool" ELSE "except"
  /\ UNCHANGED <<script, testIdx, callIdx, handshake, runs, passed, failed>>
  /\ UNCHANGED <<clientVars, weatherVars, ledgerVars, raceVars,
               searchVars>>

\* test_weather_mcp_advanced.py lines 91-98
WeatherCallTool(data_type, outcome) ==
  /\ script = "weather"
  /\ step = "call_tool"
  /\ requests' = Append(requests, Request("tools/call", ToolFor(data_type)))
  /\ step' = IF outcome = "ok" THEN "return" ELSE "except"
  /\ passed' = IF outcome = "ok" THEN 1 ELSE passed
  /\ UNCHANGED <<script, testIdx, callIdx, handshake, runs, failed>>
  /\ UNCHANGED <<clientVars, weatherVars, ledgerVars, raceVars,
               searchVars>>

\* testStockUtilityMCP.py lines 161-174: the next call_tool of the running
\* test; a call that raises or fails its assert ends the test as failed and
\* the loop goes on with the next test
StockCallTool(outcome) ==
  /\ script = "stock"
  /\ step = "tests"
  /\ outcome = "assert" => Tests[testIdx][callIdx].asserted
  /\ requests' = Append(requests, Request("tools/call", Tests[testIdx][callIdx].tool))
  /\ LET last == callIdx = Len(Tests[testIdx])
         over == outcome # "ok" \/ last
     IN /\ passed' = IF outcome = "ok" /\ last THEN passed + 1 ELSE passed
        /\ failed' = IF outcome # "ok" THEN failed + 1 ELSE failed
        /\ callIdx' = IF over THEN 1 ELSE callIdx + 1
        /\ testIdx' = IF over THEN testIdx + 1 ELSE testIdx
        /\ step' = IF over /\ testIdx = Len(Tests) THEN "return" ELSE "tests"
  /\ UNCHANGED <<script, handshake, runs>>
  /\ UNCHANGED <<clientVars, weatherVars, ledgerVars, raceVars,
               searchVars>>

\* lines 98-102 / 175-192: the script leaves the session and returns
ScriptReturns ==
  /\ step \in {"return", "except"}
  /\ script' = "none"
  /\ step' = "idle"
  /\ UNCHANGED <<testIdx, callIdx, requests, handshake, runs, passed, failed>>
  /\ UNCHANGED <<clientVars, weatherVars, ledgerVars, raceVars,
               searchVars>>

ScriptsNext ==
  \/ \E c \in {"weather", "stock"} : RunScript(c)
  \/ \E outcome \in Outcomes : OpenSession(outcome)
  \/ SessionInitialize
  \/ \E outcome \in Outcomes : InitializeReturns(outcome)
  \/ \E outcome \in Outcomes : WeatherListTools(outcome)
  \/ \E data_type \in {"past", "future"}, outcome \in Outcomes :
       WeatherCallTool(data_type, outcome)
  \/ \E outcome \in Outcomes \cup {"assert"} : StockCallTool(outcome)
  \/ ScriptReturns

SpecScripts == Init /\ [][ScriptsNext]_vars

\* ---------------------------------------------------------- ledger: actions
\* lines 238-241: the server starts; each file is kept as found or created
StartServer(foundPortfolio, foundBalance) ==
  /\ ~serverUp
  /\ serverUp' = TRUE
  /\ portfolioFile' = IF foundPortfolio.exists THEN foundPortfolio ELSE File(<<>>)
  /\ balanceFile' = IF foundBalance.exists THEN foundBalance
                    ELSE BalanceFile(INITIAL_BALANCE)
  /\ raceStart' = [portfolioFile |-> portfolioFile', balanceFile |-> balanceFile']
  /\ bought' = [t \in Tickers |->
                 dict_get(read_portfolio(foundPortfolio).portfolio, t, 0)]
  /\ UNCHANGED <<ledgerCalls, removals, lastOp, reply, before>>
  /\ UNCHANGED <<procs, overlapped, writeOrder>>
  /\ UNCHANGED <<clientVars, weatherVars, scriptVars, searchVars>>

\* lines 10-11: the files live in /tmp, where they can be removed while the
\* server runs
RemoveFile(which) ==
  /\ serverUp
  /\ removals < MaxRemovals
  /\ removals' = removals + 1
  /\ portfolioFile' = IF which = "portfolio" THEN NoFile ELSE portfolioFile
  /\ balanceFile' = IF which = "balance" THEN NoBalanceFile ELSE balanceFile
  /\ lastOp' = [op |-> NoOp, accesses |-> <<>>]
  /\ UNCHANGED <<serverUp, ledgerCalls, reply, before, bought>>
  /\ UNCHANGED raceVars
  /\ UNCHANGED <<clientVars, weatherVars, scriptVars, searchVars>>

\* lines 82-203: the server runs one tool call to its end
ToolCall(op) ==
  /\ serverUp
  /\ ledgerCalls < MaxLedgerCalls
  /\ ledgerCalls' = ledgerCalls + 1
  /\ before' = [portfolioFile |-> portfolioFile, balanceFile |-> balanceFile]
  /\ lastOp' = [op |-> op,
                accesses |-> RunTool(op, portfolioFile, balanceFile).accesses]
  /\ reply' = RunTool(op, portfolioFile, balanceFile).reply
  /\ portfolioFile' = RunTool(op, portfolioFile, balanceFile).portfolioFile
  /\ balanceFile' = RunTool(op, portfolioFile, balanceFile).balanceFile
  /\ bought' = IF op.tool = "buy_stock" /\ Positive(op.quantity)
                 THEN [bought EXCEPT ![Normalize(op.stock_id)] = @ + op.quantity]
                 ELSE bought
  /\ UNCHANGED <<serverUp, removals>>
  /\ UNCHANGED raceVars
  /\ UNCHANGED <<clientVars, weatherVars, scriptVars, searchVars>>

LedgerNext ==
  \/ \E pf \in FoundPortfolios, bf \in FoundBalances : StartServer(pf, bf)
  \/ \E which \in {"portfolio", "balance"} : RemoveFile(which)
  \/ \E op \in LedgerOps : ToolCall(op)

SpecLedger == Init /\ [][LedgerNext]_vars

\* ------------------------------------------------ ledger: two processes
Procs == {1, 2}
\* the read-modify-write tools
RaceOps == {op \in LedgerOps :
              op.tool \in {"buy_stock", "debit_money", "credit_money"}}
\* the file a tool reads and writes
Resource(op) == IF op.tool = "buy_stock" THEN "portfolio" ELSE "balance"

\* lines 148-150, 90-100, 117-119: the new content is computed from what the
\* tool read, not from the file as it is when the tool writes
BasisReread(view, file) == file
Basis(view, file) == view

\* a client's call reaches server process p
RaceCall(p, op) ==
  /\ serverUp
  /\ procs[p].pc = "idle"
  /\ procs' = [procs EXCEPT ![p] = [IdleProc EXCEPT !.pc = "called", !.op = op]]
  /\ UNCHANGED <<overlapped, writeOrder, raceStart>>
  /\ UNCHANGED ledgerVars
  /\ UNCHANGED <<clientVars, weatherVars, scriptVars, searchVars>>

\* the tool runs up to and including its read of the file (lines 144-148,
\* 87-92, 114-117); a call that is refused or raises ends here
RaceRead(p) ==
  LET op  == procs[p].op
      out == RunTool(op, portfolioFile, balanceFile)
  IN
  /\ procs[p].pc = "called"
  /\ IF \E i \in DOMAIN out.accesses : out.accesses[i] = "write"
       THEN /\ procs' = [procs EXCEPT
                           ![p].pc = "read",
                           ![p].portfolio =
                              IF Resource(op) = "portfolio"
                                THEN read_portfolio(portfolioFile).portfolio
                                ELSE <<>>,
                           ![p].balance =
                              IF Resource(op) = "balance"
                                THEN read_balance(balanceFile).balance ELSE 0]
            /\ portfolioFile' = IF Resource(op) = "portfolio"
                                  THEN read_portfolio(portfolioFile).file
                                  ELSE portfolioFile
            /\ overlapped' = (overlapped
                              \/ \E q \in Procs \ {p} :
                                   /\ procs[q].pc = "read"
                                   /\ Resource(procs[q].op) = Resource(op))
       ELSE /\ procs' = [procs EXCEPT ![p].pc = "done"]
            /\ portfolioFile' = out.portfolioFile
            /\ UNCHANGED overlapped
  /\ UNCHANGED <<writeOrder, raceStart>>
  /\ UNCHANGED <<serverUp, balanceFile, ledgerCalls, removals, lastOp, reply,
                 before, bought>>
  /\ UNCHANGED <<clientVars, weatherVars, scriptVars, searchVars>>

\* the tool computes the new content and writes the file (lines 149-150,
\* 99-100, 118-119)
RaceWrite(p) ==
  LET op  == procs[p].op
      out == RunTool(op, Basis(File(procs[p].portfolio), portfolioFile),
                     Basis(BalanceFile(procs[p].balance), balanceFile))
  IN
  /\ procs[p].pc = "read"
  /\ procs' = [procs EXCEPT ![p].pc = "done", ![p].wrote = TRUE]
  /\ portfolioFile' = IF Resource(op) = "portfolio"
                        THEN out.portfolioFile ELSE portfolioFile
  /\ balanceFile' = IF Resource(op) = "balance"
                      THEN out.balanceFile ELSE balanceFile
  /\ writeOrder' = Append(writeOrder, p)
  /\ UNCHANGED <<overlapped, raceStart>>
  /\ UNCHANGED <<serverUp, ledgerCalls, removals, lastOp, reply, before,
                 bought>>
  /\ UNCHANGED <<clientVars, weatherVars, scriptVars, searchVars>>

RaceNext ==
  \/ \E pf \in FoundPortfolios, bf \in FoundBalances : StartServer(pf, bf)
  \/ \E p \in Procs, op \in RaceOps : RaceCall(p, op)
  \/ \E p \in Procs : RaceRead(p)
  \/ \E p \in Procs : RaceWrite(p)

SpecLedgerRace == Init /\ [][RaceNext]_vars

\* ------------------------------------------------- document search: actions
\* pdf_to_chromadb.py lines 87-96: a chunk is added to the collection
IndexChunk(chunk) ==
  /\ Len(store) < MaxChunks
  /\ store' = Append(store, chunk)
  /\ UNCHANGED <<searches, lastSearch, searchReply>>
  /\ UNCHANGED <<clientVars, weatherVars, scriptVars, ledgerVars, raceVars>>

\* lines 28-57: the server runs one document_search call
DocumentSearch(query) ==
  /\ searches < MaxSearches
  /\ searches' = searches + 1
  /\ lastSearch' = [query |-> query,
                    queried |-> document_search(store, query).queried,
                    results |-> document_search(store, query).results]
  /\ searchReply' = document_search(store, query).reply
  /\ UNCHANGED store
  /\ UNCHANGED <<clientVars, weatherVars, scriptVars, ledgerVars, raceVars>>

SearchNext ==
  \/ \E chunk \in Chunks : IndexChunk(chunk)
  \/ \E query \in Queries : DocumentSearch(query)

SpecSearch == Init /\ [][SearchNext]_vars

\* ------------------------------------------------------------------ claims
\* the POSTs of requests the caller issued (its own initialize calls apart)
CallerPosts ==
  {k \in DOMAIN wire : wire[k].role = "request" /\ wire[k].method # "initialize"}

\* C1: a caller-issued request is POSTed only on a connection whose session
\* has reached Ready, exactly once, and in the order the caller issued it.
C1_RequestPostedOnceAfterReady ==
  /\ \A k \in CallerPosts : wire[k].ready
  /\ \A j, k \in CallerPosts :
       /\ (j # k => wire[j].id # wire[k].id)
       /\ (j < k => wire[j].id < wire[k].id)
  /\ (phase = "Ready" /\ method # "initialize")
       => \E k \in CallerPosts : wire[k].id = request_id /\ wire[k].conn = conn

\* C2: every connection send_request opens starts with initialized = false
\* and no endpoint URL (the session state is per connection).
C2_NewConnectionStartsUninitialized ==
  (pc = "read" /\ line.kind = "none")
    => (initialized = FALSE /\ endpoint_url = NoUrl /\ session_url = None)

\* C3: the message send_request returns carries the id of the request the
\* call POSTed; a message with another id is never returned as its response.
C3_ReturnedResponseEchoesRequestId ==
  (pc = "idle" /\ ret.kind = "response") => ret.msg.id = request_id

\* C4: every id _next_id allocates is greater than all ids allocated before,
\* so different requests on the wire never share an id.
C4_IdsStrictlyIncreasing ==
  /\ \A i, j \in DOMAIN allocated : i < j => allocated[i] < allocated[j]
  /\ \A k \in DOMAIN wire : \E i \in DOMAIN allocated : allocated[i] = wire[k].id
  /\ \A j, k \in DOMAIN wire :
       wire[j].id = wire[k].id
         => (wire[j].role = wire[k].role /\ wire[j].method = wire[k].method
             /\ wire[j].conn = wire[k].conn)

\* two calls were made, one of which allocated an id for an initialize too
C4_Witness ==
  /\ calls = 2
  /\ Len(allocated) >= 3
  /\ \E k \in DOMAIN wire : wire[k].role = "init"
  /\ \E k \in DOMAIN wire : wire[k].role = "request" /\ wire[k].conn = 2

\* C5: an `error` message answering the initialize the client generated fails
\* the session with a ProtocolError: the call raises, and the error message
\* is not returned as the response of the caller's request.
C5_InitErrorRaisesProtocolError ==
  (pc = "idle" /\ failure = "init_error" /\ method # "initialize")
    => /\ ret.kind = "raised"
       /\ \A k \in DOMAIN wire : wire[k].conn = conn => wire[k].role = "init"

\* C6: a transport failure (connection refused, stream closed, read or POST
\* timeout) ends the call with a transport exception raised to the caller.
TransportFailures == {"refused", "closed", "timeout", "post"}
C6_TransportFailureRaises ==
  (pc = "idle" /\ failure \in TransportFailures) => ret.kind = "raised"

\* C7: endpoint_url is base_url + payload of the data line that follows the
\* label `endpoint`, resolved once per such line; a data line is the
\* endpoint's only when the most recent label is `endpoint` and no data line
\* came after that label, so later data lines leave endpoint_url alone.
C7_EndpointResolvedOncePerEvent ==
  /\ endpointSets = endpointEvents
  /\ endpoint_url = IF endpointEvents = 0 THEN NoUrl ELSE base_url \o endpointData
  /\ pc = "read" => ((event_type = "endpoint") <=> endpointPending)

\* the endpoint was resolved once and a later data line (here one that is no
\* JSON) was read without a new `endpoint` label
C7_Witness ==
  /\ endpointEvents = 1
  /\ endpointSets = 1
  /\ endpoint_url = base_url \o <<"/messages/?session_id=abc">>
  /\ line.kind = "data"
  /\ line.payload.form = "garbage"
  /\ pc = "read"

\* C8: a data line (not the endpoint's) whose payload is empty, incomplete or
\* no JSON is skipped: the call goes on reading and initialized, the ids, the
\* endpoint URL and the wire are as before.
C8_UndecodableDataSkipped ==
  [][(/\ pc = "read"
      /\ nread' = nread + 1
      /\ line'.kind = "data"
      /\ line'.payload.form \in {"empty", "garbage", "path"}
      /\ ~endpointPending)
     => /\ pc' = "read"
        /\ ret' = ret
        /\ UNCHANGED <<initialized, message_id, allocated, endpoint_url,
                       session_url, wire, request_id>>]_vars

\* a line was skipped in this call, the request was POSTed and its response
\* was returned
C8_Witness ==
  /\ skipped
  /\ pc = "idle"
  /\ ret.kind = "response"
  /\ ret.msg.id = request_id
  /\ \E k \in DOMAIN wire :
       wire[k].conn = conn /\ wire[k].role = "request" /\ wire[k].id = request_id

\* C9: initialized turns true only in the step that reads a message with
\* `capabilities` under `result`, on a connection on which an initialize
\* request was POSTed before: the session goes from Initializing to Ready.
C9_ReadyOnlyOnCapabilities ==
  [][(~initialized /\ initialized')
     => /\ nread' = nread + 1
        /\ line'.kind = "data"
        /\ line'.payload.form = "object"
        /\ "result" \in DOMAIN line'.payload.obj
        /\ "capabilities" \in DOMAIN line'.payload.obj.result
        /\ \E k \in DOMAIN wire :
             wire[k].conn = conn /\ wire[k].method = "initialize"
        /\ phase = "Initializing"
        /\ phase' = "Ready"]_vars

\* C10: for a name that is not registered, call_tool returns the error text
\* "Unknown tool '<name>'" and makes no lookup.
C10_UnknownToolIsError ==
  (toolCalls > 0 /\ lastCall.name \notin {"get_weather", "get_forecast"})
    => /\ response = ErrorText(<<"Unknown tool '", lastCall.name, "'">>)
       /\ lastCall.made = <<>>

\* an unregistered name was called with a city the handlers would look up
C10_Witness ==
  /\ toolCalls > 0
  /\ lastCall.name = "get_weather "
  /\ lastCall.arguments = [city |-> <<"London">>]
  /\ response = ErrorText(<<"Unknown tool '", "get_weather ", "'">>)

\* the `city` argument of the last call is absent, empty or blank
CityMissing ==
  \/ "city" \notin DOMAIN lastCall.arguments
  \/ \A i \in DOMAIN lastCall.arguments.city : lastCall.arguments.city[i] = " "

\* C11: get_weather and get_forecast called without a city (absent, empty or
\* blank) answer the error "City name is required" and make no geocoding,
\* archive or forecast lookup, in the stream-pipe server and in the handlers
\* of the streaming-HTTP server.
C11_MissingCityIsErrorWithoutLookup ==
  (toolCalls > 0 /\ lastCall.name \in {"get_weather", "get_forecast"}
   /\ CityMissing)
    => /\ lastCall.made = <<>>
       /\ lastCall.server = "stdio"
            => response = ErrorText(<<"City name is required">>)
       /\ lastCall.server = "sse"
            => response = [type |-> "dict", error |-> <<"City name is required">>]

\* a blank city was refused after an earlier call had made lookups
C11_Witness ==
  /\ toolCalls = 2
  /\ lastCall.server = "stdio"
  /\ lastCall.name = "get_forecast"
  /\ lastCall.arguments = [city |-> <<" ">>]
  /\ lastCall.geo = "found"
  /\ response = ErrorText(<<"City name is required">>)
  /\ Len(lookups) = 2

\* the last call, served by the stream-pipe server, made a lookup that raised
LookupRaised ==
  /\ toolCalls > 0
  /\ lastCall.server = "stdio"
  /\ Failed(lastCall.made, lastCall.geo, lastCall.data) = 1

\* C12: in the stream-pipe server a lookup that raises gives an error text
\* that holds the exception's message, nothing is raised out of call_tool,
\* and a call served after such a failure is answered as on a fresh server.
C12_LookupFailureIsErrorResponse ==
  /\ LookupRaised
       => /\ response.type = "text"
          /\ Head(response.text) = "Error: "
          /\ response.text[Len(response.text)] = "timed out"
  /\ (toolCalls > 0 /\ lastCall.server = "stdio") => response.type = "text"
  /\ (toolCalls > 0 /\ lastCall.server = "stdio" /\ lookupFailures > 0
      /\ lastCall.arguments = [city |-> <<" ", "London", " ">>]
      /\ lastCall.geo = "found" /\ lastCall.data = "ok")
       => /\ lastCall.name = "get_weather"
            => response = TextContent(<<"Weather Data (PAST 7 DAYS) for ", "London">>)
          /\ lastCall.name = "get_forecast"
            => response = TextContent(<<"Weather Forecast (NEXT 7 DAYS) for ", "London">>)
          /\ lastCall.name \in {"get_weather", "get_forecast"}
            => Len(lastCall.made) = 2

\* a geocoding lookup raised in the first call and the second call succeeded
C12_Witness ==
  /\ toolCalls = 2
  /\ lookupFailures = 1
  /\ lookups = <<"geocoding", "geocoding", "archive">>
  /\ lastCall.server = "stdio"
  /\ response = TextContent(<<"Weather Data (PAST 7 DAYS) for ", "London">>)

\* C15: every tools/list answer of the stream-pipe server is get_weather then
\* get_forecast, each with a schema that requires `city`, whatever tool calls
\* and listings came before.
C15_ToolListFixed ==
  listings > 0
    => /\ Len(listed) = 2
       /\ listed[1].name = "get_weather"
       /\ listed[2].name = "get_forecast"
       /\ \A k \in DOMAIN listed :
            /\ listed[k].inputSchema.required = <<"city">>
            /\ "city" \in listed[k].inputSchema.properties

\* the tools were listed a second time after tool calls, one with a failure
C15_Witness ==
  /\ listings = 2
  /\ toolCalls = 2
  /\ lookupFailures > 0
  /\ listed = list_tools

\* the caller's tools/list or tools/call request went out on this connection
RequestPosted ==
  \E k \in DOMAIN wire :
    /\ wire[k].conn = conn
    /\ wire[k].role = "request"
    /\ wire[k].id = request_id
    /\ wire[k].method \in {"tools/list", "tools/call"}

\* C20: once the caller's tools/list or tools/call request was POSTed on the
\* connection, a message read from the stream that has `result` or `error`
\* ends the call and is its return value, with or without `capabilities`
\* under `result`; it is not taken as the initialization response (nothing
\* more is POSTed, initialized stays as it is).
C20_ResponseNotTakenAsInitAck ==
  [][(/\ pc = "read"
      /\ RequestPosted
      /\ nread' = nread + 1
      /\ ~endpointPending
      /\ line'.kind = "data"
      /\ line'.payload.form = "object"
      /\ IsResponse(line'.payload.obj))
     => /\ pc' = "idle"
        /\ ret' = [kind |-> "response", msg |-> line'.payload.obj]
        /\ UNCHANGED <<initialized, wire, message_id>>]_vars

\* a tools/call request was POSTed and the message returned to the caller has
\* `capabilities` under `result`
C20_Witness ==
  /\ pc = "idle"
  /\ method = "tools/call"
  /\ RequestPosted
  /\ ret.kind = "response"
  /\ "result" \in DOMAIN ret.msg
  /\ "capabilities" \in DOMAIN ret.msg.result
  /\ ret.msg.id = request_id

\* C14: in both client scripts a tools/list or tools/call request goes out
\* only after an initialize request went out on the same session and its
\* handshake completed; on a session whose initialize failed or is still
\* awaited, nothing but the initialize was issued.
C14_InitializeBeforeToolRequests ==
  /\ \A k \in DOMAIN requests :
       requests[k].method # "initialize"
         => /\ requests[k].handshake = "done"
            /\ k > 1
            /\ requests[1].method = "initialize"
  /\ handshake \in {"failed", "pending"}
       => (Len(requests) = 1 /\ requests[1].method = "initialize")
  /\ handshake = "none" => requests = <<>>

\* the stock script ran its tests to the end on an initialized session, one of
\* them failing
C14_Witness ==
  /\ script = "stock"
  /\ step = "return"
  /\ handshake = "done"
  /\ failed > 0
  /\ passed > 0
  /\ Len(requests) > 4
  /\ requests[Len(requests)].tool = "get_stock_price"

\* the last call was buy_stock with a positive quantity
Bought ==
  /\ ledgerCalls > 0
  /\ lastOp.op.tool = "buy_stock"
  /\ lastOp.op.quantity > 0

\* C13: buy_stock("AAPL", 10) on a missing ledger file (open() raises
\* FileNotFoundError) does not report success and leaves the stored portfolio
\* as it was: no file, no holding.
C13_MissingLedgerIsErrorResponse ==
  (Bought /\ ~before.portfolioFile.exists)
    => /\ reply.success = FALSE
       /\ portfolioFile = before.portfolioFile

\* what a ledger file says is held of a stock: the quantity of its row, 0
\* when there is no such row or no file
Holding(file, id) ==
  IF \E i \in DOMAIN file.rows : file.rows[i].stock_id = id
    THEN LET i == CHOOSE j \in DOMAIN file.rows : file.rows[j].stock_id = id
         IN file.rows[i].quantity
    ELSE 0
Held(file) == {file.rows[i].stock_id : i \in DOMAIN file.rows}
RECURSIVE Shares(_, _)
Shares(file, ids) ==
  IF ids = {} THEN 0
  ELSE LET id == CHOOSE x \in ids : TRUE
       IN Holding(file, id) + Shares(file, ids \ {id})

\* C16: buy_stock(s, q) with q > 0 succeeds, returns and stores the holding
\* of the normalized id before the call plus q, and leaves every other
\* holding as it was.
C16_BuyAccumulates ==
  Bought
    => LET id   == Normalize(lastOp.op.stock_id)
           held == Holding(before.portfolioFile, id)
       IN /\ reply.success = TRUE
          /\ reply.stock_id = id
          /\ reply.quantity = held + lastOp.op.quantity
          /\ Holding(portfolioFile, id) = held + lastOp.op.quantity
          /\ Held(portfolioFile) = Held(before.portfolioFile) \cup {id}
          /\ \A other \in Held(portfolioFile) \ {id} :
               Holding(portfolioFile, other) = Holding(before.portfolioFile, other)

\* a second buy of the same stock, spelled differently, added to the first
C16_Witness ==
  /\ Bought
  /\ ledgerCalls = 2
  /\ lastOp.op.stock_id = <<" ", "a">>
  /\ lastOp.op.quantity = 2
  /\ before.portfolioFile = File(<<Item(<<"G">>, 2), Item(<<"A">>, 2)>>)
  /\ reply.quantity = 4
  /\ portfolioFile = File(<<Item(<<"G">>, 2), Item(<<"A">>, 4)>>)

\* C17: list_stocks reports the number of stocks held, the sum of their
\* quantities and exactly the holdings, in ascending order of stock id, and
\* changes no holding.
C17_ListReportsHoldings ==
  (ledgerCalls > 0 /\ lastOp.op.tool = "list_stocks")
    => /\ reply.success = TRUE
       /\ reply.total_positions = Cardinality(Held(before.portfolioFile))
       /\ reply.total_shares
            = Shares(before.portfolioFile, Held(before.portfolioFile))
       /\ Len(reply.stocks) = reply.total_positions
       /\ \A k \in DOMAIN reply.stocks :
            /\ reply.stocks[k].stock_id \in Held(before.portfolioFile)
            /\ reply.stocks[k].quantity
                 = Holding(before.portfolioFile, reply.stocks[k].stock_id)
       /\ \A j, k \in DOMAIN reply.stocks :
            j < k => TextLess(reply.stocks[j].stock_id, reply.stocks[k].stock_id)
       /\ portfolioFile.rows = before.portfolioFile.rows

\* two stocks stored in the order G, A were listed after a buy and a sale
C17_Witness ==
  /\ ledgerCalls = 3
  /\ lastOp.op.tool = "list_stocks"
  /\ portfolioFile = File(<<Item(<<"G">>, 1), Item(<<"A">>, 3)>>)
  /\ reply.stocks = <<Item(<<"A">>, 3), Item(<<"G">>, 1)>>
  /\ reply.total_positions = 2
  /\ reply.total_shares = 4

\* the last call was a sale of no more than is held
SoldWithinHolding ==
  /\ ledgerCalls > 0
  /\ lastOp.op.tool = "sell_stock"
  /\ lastOp.op.quantity > 0
  /\ lastOp.op.quantity
       <= Holding(before.portfolioFile, Normalize(lastOp.op.stock_id))

\* C18: sell_stock(s, q) with 0 < q <= holding succeeds and returns and
\* stores holding - q; when q is the whole holding it returns 0 and the stock
\* has no row any more, so list_stocks reports one position less and does not
\* list it.
C18_SellReducesOrRemoves ==
  SoldWithinHolding
    => LET id   == Normalize(lastOp.op.stock_id)
           held == Holding(before.portfolioFile, id)
           now  == list_stocks(portfolioFile, balanceFile).reply
       IN /\ reply.success = TRUE
          /\ reply.quantity = held - lastOp.op.quantity
          /\ Holding(portfolioFile, id) = held - lastOp.op.quantity
          /\ lastOp.op.quantity = held
               => /\ reply.quantity = 0
                  /\ id \notin Held(portfolioFile)
                  /\ now.total_positions
                       = Cardinality(Held(before.portfolioFile)) - 1
                  /\ \A k \in DOMAIN now.stocks : now.stocks[k].stock_id # id
          /\ lastOp.op.quantity < held
               => /\ id \in Held(portfolioFile)
                  /\ now.total_positions = Cardinality(Held(before.portfolioFile))

\* the whole holding of a stock was sold and only the other stock is left
C18_Witness ==
  /\ SoldWithinHolding
  /\ before.portfolioFile = File(<<Item(<<"G">>, 2), Item(<<"A">>, 1)>>)
  /\ lastOp.op.stock_id = <<"g", " ">>
  /\ lastOp.op.quantity = 2
  /\ reply.quantity = 0
  /\ portfolioFile = File(<<Item(<<"A">>, 1)>>)

\* both processes ran their tool to the end and both wrote
BothWrote ==
  /\ \A p \in Procs : procs[p].pc = "done"
  /\ Len(writeOrder) = 2

\* the files after the given tool calls, run one after the other from the
\* files the server started with
RECURSIVE OneAfterTheOther(_, _)
OneAfterTheOther(ops, files) ==
  IF ops = <<>> THEN files
  ELSE LET out == RunTool(Head(ops), files.portfolioFile, files.balanceFile)
       IN OneAfterTheOther(Tail(ops), [portfolioFile |-> out.portfolioFile,
                                       balanceFile |-> out.balanceFile])
Files == [portfolioFile |-> portfolioFile, balanceFile |-> balanceFile]

\* C19: nothing keeps a second process from reading a ledger file between
\* the read and the write of a first one; when that happened, the files end
\* as if only the tool that wrote last had run (the other update is lost),
\* and for two buys what is stored of the first writer's stock is less than
\* after the two buys run one after the other. Without such an overlap the
\* files end as after the two calls in the order of their writes.
C19_LostUpdateWhenInterleaved ==
  BothWrote
    => LET first == procs[writeOrder[1]].op
           last  == procs[writeOrder[2]].op
       IN /\ overlapped
               => /\ Files = OneAfterTheOther(<<last>>, raceStart)
                  /\ first.tool = "buy_stock"
                       => Holding(portfolioFile, Normalize(first.stock_id))
                            < Holding(OneAfterTheOther(<<first, last>>,
                                                       raceStart).portfolioFile,
                                      Normalize(first.stock_id))
          /\ ~overlapped
               => Files = OneAfterTheOther(<<first, last>>, raceStart)

\* two buys of the same stock interleaved, and two credits: the holding and
\* the balance lack one of the two updates
C19_Witness ==
  /\ BothWrote
  /\ overlapped
  /\ \/ /\ procs[1].op = [tool |-> "buy_stock", stock_id |-> <<"A">>, quantity |-> 1]
        /\ procs[2].op = [tool |-> "buy_stock", stock_id |-> <<" ", "a">>,
                          quantity |-> 2]
        /\ raceStart.portfolioFile = File(<<>>)
        /\ Holding(portfolioFile, <<"A">>) \in {1, 2}
     \/ /\ procs[1].op = [tool |-> "credit_money", amount |-> 10]
        /\ procs[2].op = [tool |-> "credit_money", amount |-> 20]
        /\ raceStart.balanceFile = BalanceFile(30)
        /\ balanceFile.balance \in {40, 50}

\* every holding of the portfolio file is what it was before the last call
SameHoldings ==
  /\ Held(portfolioFile) = Held(before.portfolioFile)
  /\ \A id \in Held(portfolioFile) :
       Holding(portfolioFile, id) = Holding(before.portfolioFile, id)

\* sell_stock was the last call, with a positive quantity
SaleAsked ==
  /\ ledgerCalls > 0
  /\ lastOp.op.tool = "sell_stock"
  /\ lastOp.op.quantity > 0

MoneyMoved ==
  /\ ledgerCalls > 0
  /\ lastOp.op.tool \in {"debit_money", "credit_money"}
  /\ lastOp.op.amount > 0
  /\ before.balanceFile.exists

\* the stored balance is never negative, and a debit above the balance is
\* refused with the current balance and leaves the stored balance as it was
NeverOverdrawn ==
  /\ balanceFile.exists => balanceFile.balance >= 0
  /\ (/\ MoneyMoved
      /\ lastOp.op.tool = "debit_money"
      /\ lastOp.op.amount > before.balanceFile.balance)
       => /\ reply = [success |-> FALSE,
                      message |-> <<"Insufficient balance">>,
                      current_balance |-> before.balanceFile.balance]
          /\ balanceFile = before.balanceFile

\* the debit or credit that was the last call went through
Moved ==
  /\ MoneyMoved
  /\ lastOp.op.tool = "debit_money"
       => lastOp.op.amount <= before.balanceFile.balance

\* balance - amount after a debit, balance + amount after a credit
ExactBalance ==
  IF lastOp.op.tool = "debit_money"
    THEN before.balanceFile.balance - lastOp.op.amount
    ELSE before.balanceFile.balance + lastOp.op.amount

\* C23 as stated: the balance is never negative, a debit above the balance is
\* refused and changes nothing, a successful debit stores balance - amount
\* and a successful credit stores balance + amount.
C23_BalanceExact ==
  /\ NeverOverdrawn
  /\ Moved => /\ reply.success = TRUE
              /\ balanceFile.balance = ExactBalance

\* C23, amended: the balance is never negative, a debit above the balance is
\* refused and changes nothing, and a successful debit or credit stores
\* balance - amount or balance + amount rounded to the nearest hundredth: the
\* exact value when the amount is a whole number of hundredths.
C23_BalanceRounded ==
  /\ NeverOverdrawn
  /\ Moved => /\ reply.success = TRUE
              /\ balanceFile.balance % 10 = 0
              /\ balanceFile.balance - ExactBalance \in -5..5
              /\ reply.balance = balanceFile.balance
              /\ lastOp.op.amount % 10 = 0
                   => balanceFile.balance = ExactBalance

\* 0.004 was debited from a balance of 0.01 and the balance is still 0.01
C23_Witness ==
  /\ Moved
  /\ lastOp.op = [tool |-> "debit_money", amount |-> 4]
  /\ before.balanceFile = BalanceFile(10)
  /\ reply.success = TRUE
  /\ balanceFile = BalanceFile(10)

\* the last call had a quantity or an amount that is not positive
NonPositiveInput ==
  /\ ledgerCalls > 0
  /\ \/ /\ lastOp.op.tool \in {"buy_stock", "sell_stock"}
        /\ lastOp.op.quantity <= 0
     \/ /\ lastOp.op.tool \in {"debit_money", "credit_money"}
        /\ lastOp.op.amount <= 0

\* C24: buy_stock and sell_stock with quantity <= 0 return success=false
\* "Quantity must be positive", debit_money and credit_money with amount <= 0
\* return success=false "Amount must be positive", and in each case neither
\* file is read or written.
C24_NonPositiveRejectedUntouched ==
  NonPositiveInput
    => /\ reply = IF lastOp.op.tool \in {"buy_stock", "sell_stock"}
                    THEN Refused("Quantity must be positive")
                    ELSE Refused("Amount must be positive")
       /\ lastOp.accesses = <<>>
       /\ portfolioFile = before.portfolioFile
       /\ balanceFile = before.balanceFile

\* no share was to be bought while the portfolio file was missing: it is
\* still missing
C24_Witness ==
  /\ NonPositiveInput
  /\ lastOp.op.tool = "buy_stock"
  /\ lastOp.op.quantity = 0
  /\ ~before.portfolioFile.exists
  /\ ~portfolioFile.exists
  /\ reply.success = FALSE

\* C26: every row of the portfolio file and every stock list_stocks reports
\* has an integer quantity of at least 1, and no holding exceeds the shares
\* bought of that stock.
C26_HoldingsPositiveAndBounded ==
  /\ \A i \in DOMAIN portfolioFile.rows :
       /\ portfolioFile.rows[i].quantity \in Nat \ {0}
       /\ portfolioFile.rows[i].stock_id \in Tickers
  /\ LET now == list_stocks(portfolioFile, balanceFile).reply
     IN \A k \in DOMAIN now.stocks : now.stocks[k].quantity \in Nat \ {0}
  /\ (ledgerCalls > 0 /\ lastOp.op.tool = "list_stocks")
       => \A k \in DOMAIN reply.stocks : reply.stocks[k].quantity \in Nat \ {0}
  /\ \A t \in Tickers : Holding(portfolioFile, t) <= bought[t]

\* three shares of a stock were bought in all and one of them was sold
C26_Witness ==
  /\ ledgerCalls > 0
  /\ lastOp.op.tool = "sell_stock"
  /\ reply.success = TRUE
  /\ bought[<<"A">>] = 3
  /\ Holding(portfolioFile, <<"A">>) = 2

\* the query is empty or holds nothing but blanks
Blank(query) == \A i \in DOMAIN query : query[i] = " "

\* C25: document_search returns {max_score: 1.0, chunks: []} without querying
\* the store for an empty or blank query, and the same value when the store
\* returns nothing; otherwise chunks holds the page contents of the results in
\* the store's order, at most TOP_K of them, and max_score is the smallest of
\* their scores.
C25_SearchReturnsChunksAndBestScore ==
  searches > 0
    => /\ Blank(lastSearch.query)
            => /\ ~lastSearch.queried
               /\ searchReply = [max_score |-> 100, chunks |-> <<>>]
       /\ ~Blank(lastSearch.query)
            => /\ lastSearch.queried
               /\ lastSearch.results
                    = SubSeq(store, 1, Len(lastSearch.results))
               /\ lastSearch.results = <<>>
                    => searchReply = [max_score |-> 100, chunks |-> <<>>]
               /\ lastSearch.results # <<>>
                    => /\ Len(searchReply.chunks) = Len(lastSearch.results)
                       /\ Len(searchReply.chunks) <= 3
                       /\ \A i \in DOMAIN searchReply.chunks :
                            searchReply.chunks[i]
                              = lastSearch.results[i].page_content
                       /\ \E i \in DOMAIN lastSearch.results :
                            searchReply.max_score = lastSearch.results[i].score
                       /\ \A i \in DOMAIN lastSearch.results :
                            searchReply.max_score <= lastSearch.results[i].score

\* four chunks are stored, the best of the three returned is not the first
C25_Witness ==
  /\ searches > 0
  /\ lastSearch.query = <<" ", "q">>
  /\ Len(store) = 4
  /\ Len(searchReply.chunks) = 3
  /\ lastSearch.results[1].score = 120
  /\ searchReply.max_score = 20
  /\ searchReply.chunks = <<"c2", "c1", "c2">>

\* a call has returned
Returned == calls > 0 /\ pc = "idle"

\* C21: against a server that sends the endpoint event, acknowledges every
\* initialize with capabilities and answers every POSTed request, every
\* send_request call ends, the first of a client and the later ones alike;
\* it returns a response unless the GET was turned down or the transport
\* failed, and None when the stream ended before a response arrived.
C21_CallReturnsResponseOrNoneAtStreamEnd ==
  /\ [](Returned => \/ /\ ret.kind = "response"
                       /\ failure = "none"
                    \/ /\ ret.kind = "none"
                       /\ failure \in TransportFailures \cup {"status"})
  /\ [](failure = "closed" => Returned /\ ret.kind = "none")
  /\ (pc # "idle") ~> (pc = "idle")

\* on its second connection the client, initialized by its first call, posted
\* its request at once and got the response to it
C21_Witness ==
  /\ Returned
  /\ calls = 2
  /\ conn = 2
  /\ initialized
  /\ ret.kind = "response"
  /\ ret.msg.id = request_id
  /\ failure = "none"
  /\ \E k \in DOMAIN wire : wire[k].conn = 1 /\ wire[k].role = "init"
  /\ \A k \in DOMAIN wire : wire[k].conn = 2 => wire[k].role = "request"

====
